---- MODULE Spec2Model ----
(***************************************************************************)
(* A model of openrecall/database.py: the SQLite store behind create_db,   *)
(* insert_entry, get_all_entries and get_timestamps.                       *)
(*                                                                         *)
(* The store is the database file: the tables 'entries' and 'entries_old', *)
(* the index idx_timestamp and the sqlite_sequence counters.  Every public *)
(* function is one action; a store error (sqlite3.Error) may be injected   *)
(* at any statement of the function, and the effect of the statements      *)
(* before it is what sqlite3 keeps: a DDL statement executed while no      *)
(* transaction is open is committed at once, the sqlite3 module opens a    *)
(* transaction only before an INSERT, and the "with" block rolls the open  *)
(* transaction back when an exception leaves it.                           *)
(***************************************************************************)
EXTENDS Integers, Sequences, FiniteSets, TLC

VARIABLES db, pre, last, hist
vars == <<db, pre, last, hist>>

\* Bound of the model: inserts are taken while 'entries' holds fewer rows.
MaxRows == 3

\* Python None and SQL NULL.
NULL == "<NULL>"

Pow2(n) == 2 ^ n

Max(a, b) == IF a >= b THEN a ELSE b

(***************************************************************************)
(* Floating point.  A value of the embedding vector is                     *)
(*   [k, s, e, hi, lo]  with  k in {"zero", "fin", "inf", "nan"},          *)
(* and for k = "fin" the number (-1)^s * (hi * 2^29 + lo) * 2^(e - 52),    *)
(* 2^23 <= hi < 2^24, 0 <= lo < 2^29: the 53 bit significand of a float64  *)
(* split after its 24 leading bits.  A float32 is such a value with lo = 0 *)
(* and -149 <= e <= 127 whose significand fits the float32 format.         *)
(***************************************************************************)
Fin(s, e, hi, lo) == [k |-> "fin", s |-> s, e |-> e, hi |-> hi, lo |-> lo]
Special(k, s) == [k |-> k, s |-> s, e |-> 0, hi |-> 0, lo |-> 0]

\* The sign, exponent and fraction fields of the float32 nearest to x
\* (round to nearest, ties to even), as numpy's astype(np.float32) yields.
Float32Fields(x) ==
    IF x.k = "zero" THEN [s |-> x.s, E |-> 0, F |-> 0]
    ELSE IF x.k = "inf" THEN [s |-> x.s, E |-> 255, F |-> 0]
    ELSE IF x.k = "nan" THEN [s |-> x.s, E |-> 255, F |-> Pow2(22)]
    ELSE IF x.e >= -126 THEN
        LET up == x.lo > Pow2(28) \/ (x.lo = Pow2(28) /\ x.hi % 2 = 1)
            m  == IF up THEN x.hi + 1 ELSE x.hi
            e2 == IF m = Pow2(24) THEN x.e + 1 ELSE x.e
            m2 == IF m = Pow2(24) THEN Pow2(23) ELSE m
        IN  IF e2 > 127 THEN [s |-> x.s, E |-> 255, F |-> 0]
            ELSE [s |-> x.s, E |-> e2 + 127, F |-> m2 - Pow2(23)]
    ELSE
        LET d == -126 - x.e
        IN  IF d > 25 THEN [s |-> x.s, E |-> 0, F |-> 0]
            ELSE
              LET q    == x.hi \div Pow2(d)
                  r    == x.hi % Pow2(d)
                  half == Pow2(d - 1)
                  up   == r > half \/ (r = half /\ (x.lo > 0 \/ q % 2 = 1))
                  m    == IF up THEN q + 1 ELSE q
              IN  [s |-> x.s, E |-> m \div Pow2(23), F |-> m % Pow2(23)]

\* The four bytes of one float32, least significant first (tobytes()).
Float32Bytes(x) ==
    LET f == Float32Fields(x)
    IN  << f.F % 256,
           (f.F \div 256) % 256,
           (f.E % 2) * 128 + f.F \div 65536,
           f.s * 128 + f.E \div 2 >>

RECURSIVE Normalize(_, _, _)
Normalize(s, e, m) ==
    IF m >= Pow2(23) THEN Fin(s, e, m, 0) ELSE Normalize(s, e - 1, 2 * m)

\* A decoding that takes the subnormal numbers for zero.
BytesFloat32_FlushToZero(b) ==
    LET s == b[4] \div 128
        E == (b[4] % 128) * 2 + b[3] \div 128
        F == (b[3] % 128) * 65536 + b[2] * 256 + b[1]
    IN  IF E = 255 THEN (IF F = 0 THEN Special("inf", s) ELSE Special("nan", s))
        ELSE IF E = 0 THEN Special("zero", s)
        ELSE Fin(s, E - 127, Pow2(23) + F, 0)

\* The float32 four bytes stand for (np.frombuffer with dtype float32).
BytesFloat32(b) ==
    LET s == b[4] \div 128
        E == (b[4] % 128) * 2 + b[3] \div 128
        F == (b[3] % 128) * 65536 + b[2] * 256 + b[1]
    IN  IF E = 255 THEN (IF F = 0 THEN Special("inf", s) ELSE Special("nan", s))
        ELSE IF E = 0 THEN (IF F = 0 THEN Special("zero", s)
                            ELSE Normalize(s, -126, F))
        ELSE Fin(s, E - 127, Pow2(23) + F, 0)

\* embedding.astype(np.float32).tobytes()
RECURSIVE Encode(_)
Encode(v) ==
    IF v = <<>> THEN <<>> ELSE Float32Bytes(Head(v)) \o Encode(Tail(v))

\* np.frombuffer(blob, dtype=np.float32)
RECURSIVE Decode(_)
Decode(b) ==
    IF Len(b) < 4 THEN <<>>
    ELSE <<BytesFloat32(SubSeq(b, 1, 4))>> \o Decode(SubSeq(b, 5, Len(b)))

\* Equality of two floating point numbers (IEEE: a NaN equals nothing,
\* the two zeros are equal).
FloatEq(a, b) ==
    /\ a.k # "nan"
    /\ b.k # "nan"
    /\ \/ (a.k = "zero" /\ b.k = "zero")
       \/ a = b

VecEq(u, v) ==
    /\ Len(u) = Len(v)
    /\ \A i \in 1..Len(u) : FloatEq(u[i], v[i])

\* Some float64 numbers.
F0_1 == Fin(0, -4, 13421772, 429496730)    \* 0.1
F0_2 == Fin(0, -3, 13421772, 429496730)    \* 0.2
F0_3 == Fin(0, -2, 10066329, 322122547)    \* 0.3
F1_0 == Fin(0, 0, 8388608, 0)              \* 1.0
Fm2_5 == Fin(1, 1, 10485760, 0)            \* -2.5
F1em40 == Fin(0, -133, 9134385, 125261724) \* 1e-40

(***************************************************************************)
(* The store.  A table is its stored definition (the text sqlite_master    *)
(* keeps, as a sequence of words), the columns and the uniqueness of       *)
(* timestamp that SQLite read from it, and its rows in rowid order, each   *)
(* row a function from the table's columns to values.                      *)
(***************************************************************************)
Range(s) == {s[i] : i \in 1..Len(s)}

\* Entry = namedtuple("Entry", [...]) and the column list of the copy.
CanonCols == <<"id", "app", "title", "text", "timestamp", "embedding", "filename">>

ColsNoFilename == SubSeq(CanonCols, 1, 6)

\* The words of a table definition: the columns before timestamp, the
\* declaration of timestamp, and the columns after it.
TableSql(name, tsDecl, withFilename) ==
    <<"CREATE", "TABLE", name, "(",
      "id", "INTEGER", "PRIMARY", "KEY", "AUTOINCREMENT", ",",
      "app", "TEXT", ",", "title", "TEXT", ",", "text", "TEXT", ",">>
    \o tsDecl \o <<",", "embedding", "BLOB">>
    \o (IF withFilename THEN <<",", "filename", "TEXT">> ELSE <<>>)
    \o <<")">>

NoTable == [exists |-> FALSE, sql |-> <<>>, cols |-> <<>>, unique |-> FALSE, rows |-> <<>>]

\* The table both CREATE TABLE statements of create_db define.
NewTable ==
    [exists |-> TRUE,
     sql    |-> TableSql("entries", <<"timestamp", "INTEGER">>, TRUE),
     cols   |-> CanonCols,
     unique |-> FALSE,
     rows   |-> <<>>]

\* needle in haystack, on sequences of words (Python's "in" on str).
Contains(haystack, needle) ==
    \E i \in 0..(Len(haystack) - Len(needle)) :
        \A j \in 1..Len(needle) : haystack[i + j] = needle[j]

\* A detection that takes every existing table for a legacy table.
MigrationNeeded_AnyTable(result) == result # <<>>

\* Lines 27-30: the test that decides the migration, on fetchone()'s result
\* (<<>> for None, else the one-column row).
MigrationNeeded(result) ==
    /\ result # <<>>
    /\ Contains(result[1], <<"timestamp", "INTEGER", "UNIQUE">>)

RECURSIVE MaxId(_)
MaxId(rows) == IF rows = <<>> THEN 0 ELSE Max(Head(rows)["id"], MaxId(Tail(rows)))

\* Python's exception classes: the classes a handler for h catches.
Mro(cls) ==
    CASE cls = "OperationalError" -> {"OperationalError", "DatabaseError", "Error"}
      [] cls = "IntegrityError"   -> {"IntegrityError", "DatabaseError", "Error"}
      [] cls = "DatabaseError"    -> {"DatabaseError", "Error"}
      [] OTHER                    -> {cls}

Catches(handler, cls) == handler \in Mro(cls)

(***************************************************************************)
(* One call runs its statements on a connection:                           *)
(*   db         the store as this connection sees it                       *)
(*   committed  the store as the file holds it                             *)
(*   inTxn      a transaction is open                                      *)
(*   err        NULL, or the class of the exception a statement raised     *)
(*   trace      the statements executed so far                             *)
(*   open       the connection handle is open                              *)
(*   columns_old, rows, lastrowid, rowcount: what the cursor returned      *)
(*   args       the arguments of the call                                  *)
(*   order      the order in which the store returns the rows of an        *)
(*              ORDER BY query (rows of equal timestamp come in any order) *)
(***************************************************************************)
Conn(d, args, order) ==
    [db |-> d, committed |-> d, inTxn |-> FALSE, err |-> NULL, trace |-> <<>>,
     columns_old |-> <<>>, rows |-> <<>>, lastrowid |-> 0, rowcount |-> 0,
     args |-> args, order |-> order, open |-> FALSE]

\* "sqlite3.connect(db_path)": the handle of the call.
Connect(st) == [st EXCEPT !.open = TRUE]

Fail(st, cls) == [st EXCEPT !.err = cls]

\* "SELECT sql FROM sqlite_master WHERE type='table' AND name='entries'"
SelectSql(st) ==
    [st EXCEPT !.rows = IF st.db.entries.exists THEN <<st.db.entries.sql>> ELSE <<>>]

\* "ALTER TABLE entries RENAME TO entries_old": the index and the
\* sqlite_sequence row follow the table.
RenameTable(st) ==
    IF ~st.db.entries.exists \/ st.db.entries_old.exists
    THEN Fail(st, "OperationalError")
    ELSE [st EXCEPT
            !.db.entries_old = [st.db.entries EXCEPT !.sql[3] = "entries_old"],
            !.db.entries = NoTable,
            !.db.idx = IF st.db.idx = "entries" THEN "entries_old" ELSE st.db.idx,
            !.db.seq = [entries |-> 0, entries_old |-> st.db.seq.entries]]

\* "CREATE TABLE entries (...)"
CreateTable(st) ==
    IF st.db.entries.exists THEN Fail(st, "OperationalError")
    ELSE [st EXCEPT !.db.entries = NewTable]

\* A creation that replaces the table it finds.
CreateTable_Replacing(st) == [st EXCEPT !.db.entries = NewTable]

\* "CREATE TABLE IF NOT EXISTS entries (...)"
CreateTableIfNotExists(st) ==
    IF st.db.entries.exists THEN st ELSE [st EXCEPT !.db.entries = NewTable]

\* "PRAGMA table_info(entries_old)" and row[1] of every row: no row for a
\* table that does not exist.
TableInfo(st) ==
    [st EXCEPT !.columns_old = st.db.entries_old.cols]

\* common_columns: the canonical columns the old table has, in canonical order.
CommonColumns(columns_old) ==
    SelectSeq(CanonCols, LAMBDA col : col \in Range(columns_old))

\* A copy that leaves filename out of the columns it carries over.
CopiedRow_NoFilename(old, common) ==
    [c \in Range(CanonCols) |->
        IF c \in Range(common) /\ c # "filename" THEN old[c] ELSE NULL]

\* One row of "INSERT INTO entries (cols) SELECT cols FROM entries_old".
CopiedRow(old, common) ==
    [c \in Range(CanonCols) |-> IF c \in Range(common) THEN old[c] ELSE NULL]

\* "INSERT INTO entries (...) SELECT ... FROM entries_old"; the module opens
\* a transaction before it.
CopyRows(st) ==
    LET common == CommonColumns(st.columns_old)
        src    == st.db.entries_old.rows
        copied == [i \in 1..Len(src) |-> CopiedRow(src[i], common)]
        begun  == [st EXCEPT !.inTxn = TRUE]
    IN  IF \/ ~st.db.entries.exists
           \/ ~st.db.entries_old.exists
           \/ common = <<>>
           \/ \E i \in 1..Len(src), j \in 1..Len(st.db.entries.rows) :
                 "id" \in Range(common) /\ src[i]["id"] = st.db.entries.rows[j]["id"]
        THEN Fail(begun, "OperationalError")
        ELSE [begun EXCEPT
                !.db.entries.rows = st.db.entries.rows \o copied,
                !.db.seq.entries = Max(st.db.seq.entries, MaxId(copied)),
                !.rowcount = Len(src)]

\* "DROP TABLE entries_old": its indexes and sqlite_sequence row go with it.
DropTable(st) ==
    IF ~st.db.entries_old.exists THEN Fail(st, "OperationalError")
    ELSE [st EXCEPT
            !.db.entries_old = NoTable,
            !.db.idx = IF st.db.idx = "entries_old" THEN "none" ELSE st.db.idx,
            !.db.seq.entries_old = 0]

\* "CREATE INDEX IF NOT EXISTS idx_timestamp ON entries (timestamp)": nothing
\* happens when an index of that name exists, on whatever table.
CreateIndex(st) ==
    IF st.db.idx # "none" THEN st
    ELSE IF ~st.db.entries.exists \/ "timestamp" \notin Range(st.db.entries.cols)
    THEN Fail(st, "OperationalError")
    ELSE [st EXCEPT !.db.idx = "entries"]

\* The rows of "SELECT cols FROM entries", in rowid order.
SelectCols(st, cols) ==
    IF ~st.db.entries.exists \/ ~(Range(cols) \subseteq Range(st.db.entries.cols))
    THEN Fail(st, "OperationalError")
    ELSE [st EXCEPT !.rows =
            [i \in 1..Len(st.db.entries.rows) |->
                [c \in Range(cols) |-> st.db.entries.rows[i][c]]]]

\* "SELECT filename FROM entries LIMIT 1"
SelectFilename(st) == SelectCols(st, <<"filename">>)

\* An ALTER TABLE that adds nothing.
AddColumn_Nothing(st) == st

\* "ALTER TABLE entries ADD COLUMN filename TEXT"
AddColumn(st) ==
    IF ~st.db.entries.exists \/ "filename" \in Range(st.db.entries.cols)
    THEN Fail(st, "OperationalError")
    ELSE LET t == st.db.entries
         IN  [st EXCEPT !.db.entries =
                [t EXCEPT
                   !.sql = SubSeq(t.sql, 1, Len(t.sql) - 1)
                             \o <<",", "filename", "TEXT", ")">>,
                   !.cols = Append(t.cols, "filename"),
                   !.rows = [i \in 1..Len(t.rows) |->
                               [c \in Range(t.cols) \cup {"filename"} |->
                                   IF c = "filename" THEN NULL ELSE t.rows[i][c]]]]]

\* conn.commit()
Commit(st) == [st EXCEPT !.committed = st.db, !.inTxn = FALSE]

\* The "with" block left by an exception: conn.rollback().
Rollback(st) == [st EXCEPT !.db = st.committed, !.inTxn = FALSE]

\* The orders "ORDER BY timestamp DESC" may return the rows in: every
\* permutation of the rows that is non-increasing in timestamp.
Perms ==
    [n \in 0..Max(MaxRows, 2) |->
        {p \in [1..n -> 1..n] : \A i, j \in 1..n : i # j => p[i] # p[j]}]

Orders(rows) ==
    {p \in Perms[Len(rows)] :
        \A i \in 1..(Len(rows) - 1) :
            rows[p[i]]["timestamp"] >= rows[p[i + 1]]["timestamp"]}

\* "SELECT cols FROM entries ORDER BY timestamp DESC"
SelectOrdered(st, cols) ==
    LET r == SelectCols(st, cols)
    IN  IF r.err # NULL THEN r
        ELSE [r EXCEPT !.rows = [i \in 1..Len(r.rows) |-> r.rows[st.order[i]]]]

\* The columns and the parameters of insert_entry's INSERT, in the order
\* of the statement.
InsertCols == <<"text", "timestamp", "embedding", "app", "title", "filename">>

\* The values bound with app and title in each other's place.
InsertValues_AppTitleSwapped(args) ==
    <<args.text, args.timestamp, Encode(args.embedding), args.title, args.app,
      args.filename>>

InsertValues(args) ==
    <<args.text, args.timestamp, Encode(args.embedding), args.app, args.title,
      args.filename>>

\* The value the INSERT gives column c.
Bound(args, c) ==
    LET i == CHOOSE i \in 1..Len(InsertCols) : InsertCols[i] = c
    IN  InsertValues(args)[i]

\* An insert that takes the place of the rows that hold its timestamp, as
\* "INSERT OR REPLACE" does on a unique timestamp.
InsertRow_OrReplace(st) ==
    LET t     == st.db.entries
        begun == [st EXCEPT !.inTxn = TRUE]
        id    == Max(st.db.seq.entries, MaxId(t.rows)) + 1
        row   == [c \in Range(t.cols) |->
                    IF c = "id" THEN id
                    ELSE IF c \in Range(InsertCols) THEN Bound(st.args, c)
                    ELSE NULL]
        kept  == SelectSeq(t.rows, LAMBDA r : r["timestamp"] # st.args.timestamp)
    IN  IF ~t.exists \/ ~(Range(InsertCols) \subseteq Range(t.cols))
        THEN Fail(begun, "OperationalError")
        ELSE [begun EXCEPT
                !.db.entries.rows = Append(kept, row),
                !.db.seq.entries = id,
                !.lastrowid = id,
                !.rowcount = 1]

\* An insert that passes over a row whose timestamp is stored already, as
\* "ON CONFLICT(timestamp) DO NOTHING" did.
InsertRow_OnConflictDoNothing(st) ==
    LET t     == st.db.entries
        begun == [st EXCEPT !.inTxn = TRUE]
        id    == Max(st.db.seq.entries, MaxId(t.rows)) + 1
        row   == [c \in Range(t.cols) |->
                    IF c = "id" THEN id
                    ELSE IF c \in Range(InsertCols) THEN Bound(st.args, c)
                    ELSE NULL]
    IN  IF ~t.exists \/ ~(Range(InsertCols) \subseteq Range(t.cols))
        THEN Fail(begun, "OperationalError")
        ELSE IF \E i \in 1..Len(t.rows) : t.rows[i]["timestamp"] = st.args.timestamp
        THEN [begun EXCEPT !.rowcount = 0]
        ELSE [begun EXCEPT
                !.db.entries.rows = Append(t.rows, row),
                !.db.seq.entries = id,
                !.lastrowid = id,
                !.rowcount = 1]

\* "INSERT INTO entries (text, timestamp, embedding, app, title, filename)
\* VALUES (?, ?, ?, ?, ?, ?)"; the module opens a transaction before it.
\* AUTOINCREMENT: the new id is one more than the largest id the table
\* ever held (sqlite_sequence).
InsertRow(st) ==
    LET t     == st.db.entries
        begun == [st EXCEPT !.inTxn = TRUE]
        id    == Max(st.db.seq.entries, MaxId(t.rows)) + 1
        row   == [c \in Range(t.cols) |->
                    IF c = "id" THEN id
                    ELSE IF c \in Range(InsertCols) THEN Bound(st.args, c)
                    ELSE NULL]
    IN  IF ~t.exists \/ ~(Range(InsertCols) \subseteq Range(t.cols))
        THEN Fail(begun, "OperationalError")
        ELSE IF t.unique /\ \E i \in 1..Len(t.rows) :
                               t.rows[i]["timestamp"] = st.args.timestamp
        THEN Fail(begun, "IntegrityError")
        ELSE [begun EXCEPT
                !.db.entries.rows = Append(t.rows, row),
                !.db.seq.entries = id,
                !.lastrowid = id,
                !.rowcount = 1]

\* One statement of a call.
Exec(s, st) ==
    CASE s = "connect"                    -> Connect(st)
      [] s = "SELECT sql"                 -> SelectSql(st)
      [] s = "RENAME"                     -> RenameTable(st)
      [] s = "CREATE TABLE"               -> CreateTable(st)
      [] s = "PRAGMA table_info"          -> TableInfo(st)
      [] s = "INSERT SELECT"              -> CopyRows(st)
      [] s = "DROP TABLE"                 -> DropTable(st)
      [] s = "CREATE TABLE IF NOT EXISTS" -> CreateTableIfNotExists(st)
      [] s = "CREATE INDEX"               -> CreateIndex(st)
      [] s = "SELECT filename"            -> SelectFilename(st)
      [] s = "ADD COLUMN"                 -> AddColumn(st)
      [] s = "commit"                     -> Commit(st)
      [] s = "INSERT"                     -> InsertRow(st)
      [] s = "SELECT entries"             -> SelectOrdered(st, CanonCols)
      [] s = "SELECT timestamp"           -> SelectOrdered(st, <<"timestamp">>)
      [] s = "fetchall"                   -> st

\* A store error: the statement at which the store raises, and the class of
\* the exception.
NoFault == [at |-> "none", cls |-> NULL]

\* The class of the exception: OperationalError (database locked, disk
\* full, disk I/O error) at any statement, and also DatabaseError (file is
\* not a database, malformed image) at the statements whose handlers tell
\* the two apart or that write.
FaultClasses(s) ==
    IF s \in {"SELECT filename", "ADD COLUMN", "INSERT", "SELECT entries", "commit"}
    THEN {"OperationalError", "DatabaseError"}
    ELSE {"OperationalError"}

\* A connection in autocommit mode: every statement's effect is durable at
\* once.
Settle_Autocommit(st) == [st EXCEPT !.committed = st.db]

\* What a statement leaves when it is outside a transaction: SQLite
\* commits it at once.
Settle(st) == IF st.inTxn THEN st ELSE [st EXCEPT !.committed = st.db]

\* Lines 92-98: the handlers inside create_db.  An OperationalError of the
\* probe of filename leads to the ALTER TABLE, an OperationalError of the
\* ALTER TABLE is passed over.
InnerHandler(s, cls) ==
    IF s = "SELECT filename" /\ Catches("OperationalError", cls) THEN <<"ADD COLUMN">>
    ELSE IF s = "ADD COLUMN" /\ Catches("OperationalError", cls) THEN <<>>
    ELSE <<"raise">>

\* The statements stmts run in order on st with the store error fault: the
\* run ends at the first exception no inner handler takes, and the "with"
\* block rolls back.  After is the run from the end of one statement on.
RECURSIVE Run(_, _, _)
RECURSIVE After(_, _, _, _)
Run(st, stmts, fault) ==
    IF st.err # NULL \/ stmts = <<>> THEN st
    ELSE After(IF fault.at = Head(stmts)
               THEN Fail(st, fault.cls)
               ELSE Exec(Head(stmts), st),
               Head(stmts), Tail(stmts), fault)

\* The run after statement s left the connection as r.
After(r, s, rest, fault) ==
    IF r.err = NULL
    THEN Run(Settle([r EXCEPT !.trace = Append(r.trace, s)]), rest, fault)
    ELSE IF InnerHandler(s, r.err) # <<"raise">>
    THEN Run([r EXCEPT !.trace = Append(r.trace, s), !.err = NULL],
             InnerHandler(s, r.err) \o rest, fault)
    ELSE Rollback([r EXCEPT !.trace = Append(r.trace, s)])

(***************************************************************************)
(* The four public functions.  Each yields the connection as the call      *)
(* leaves it and what the caller sees.                                     *)
(***************************************************************************)
NoArgs ==
    [text |-> NULL, timestamp |-> 0, embedding |-> <<>>, app |-> NULL,
     title |-> NULL, filename |-> NULL]

\* A handler for sqlite3.OperationalError only.
Handled_OperationalErrorOnly(err) == Catches("OperationalError", err)

\* Whether the handler "except sqlite3.Error" of the function takes the
\* exception that left the "with" block.
Handled(err) == Catches("Error", err)

\* What a call leaves for its caller: raised, the exception reached the
\* caller; logged, the handler printed its message; id, entries and
\* timestamps, the value returned (id is <<>> for None, else <<n>>); open,
\* the handle of the call is open when the function returns: leaving the
\* "with" block commits or rolls back and closes nothing, and no function
\* calls close().
Outcome(op, st, fault, args, id, entries, timestamps) ==
    [op         |-> op,
     fault      |-> fault,
     args       |-> args,
     err        |-> st.err,
     raised     |-> st.err # NULL /\ ~Handled(st.err),
     logged     |-> st.err # NULL /\ Handled(st.err),
     trace      |-> st.trace,
     open       |-> st.open,
     id         |-> id,
     entries    |-> entries,
     timestamps |-> timestamps]

MigrationStmts ==
    <<"RENAME", "CREATE TABLE", "PRAGMA table_info", "INSERT SELECT", "DROP TABLE">>

\* Lines 33-100: create_db from the test of migration_needed on, s1 the
\* connection after the SELECT on sqlite_master.
CreateDbBody(s1, fault) ==
    Run(s1,
        (IF s1.err = NULL /\ MigrationNeeded(s1.rows)
         THEN MigrationStmts
         ELSE <<"CREATE TABLE IF NOT EXISTS">>)
        \o <<"CREATE INDEX", "SELECT filename", "commit">>,
        fault)

\* The store a call leaves and what its caller sees.
Result(st, out) == [db |-> st.committed, out |-> out]

CreateDbResult(st, fault) ==
    Result(st, Outcome("create_db", st, fault, NoArgs, <<>>, <<>>, <<>>))

\* create_db()
create_db(d, fault) ==
    CreateDbResult(
        CreateDbBody(Run(Conn(d, NoArgs, <<>>), <<"connect", "SELECT sql">>, fault),
                     fault),
        fault)

\* insert_entry(text, timestamp, embedding, app, title, filename)
InsertResult(st, args, fault) ==
    Result(st, Outcome("insert_entry", st, fault, args,
                       IF st.err = NULL /\ st.rowcount > 0
                       THEN <<st.lastrowid>> ELSE <<>>,
                       <<>>, <<>>))

insert_entry(d, args, fault) ==
    InsertResult(Run(Conn(d, args, <<>>), <<"connect", "INSERT", "commit">>, fault),
                 args, fault)

\* Lines 122-132: the Entry built from one fetched row.
EntryOf(row) ==
    [id        |-> row["id"],
     app       |-> row["app"],
     title     |-> row["title"],
     text      |-> row["text"],
     timestamp |-> row["timestamp"],
     embedding |-> Decode(row["embedding"]),
     filename  |-> IF "filename" \in DOMAIN row THEN row["filename"] ELSE NULL]

\* get_all_entries()
EntriesResult(st, fault) ==
    Result(st, Outcome("get_all_entries", st, fault, NoArgs, <<>>,
                       IF st.err = NULL
                       THEN [i \in 1..Len(st.rows) |-> EntryOf(st.rows[i])]
                       ELSE <<>>,
                       <<>>))

get_all_entries(d, order, fault) ==
    EntriesResult(Run(Conn(d, NoArgs, order),
                      <<"connect", "SELECT entries", "fetchall">>, fault),
                  fault)

\* get_timestamps()
TimestampsResult(st, fault) ==
    Result(st, Outcome("get_timestamps", st, fault, NoArgs, <<>>, <<>>,
                       IF st.err = NULL
                       THEN [i \in 1..Len(st.rows) |-> st.rows[i]["timestamp"]]
                       ELSE <<>>))

get_timestamps(d, order, fault) ==
    TimestampsResult(Run(Conn(d, NoArgs, order),
                         <<"connect", "SELECT timestamp", "fetchall">>, fault),
                     fault)

(***************************************************************************)
(* The stores a first call may find, and the arguments of the inserts.     *)
(***************************************************************************)
Store(entries, idx, seq) ==
    [entries |-> entries, entries_old |-> NoTable, idx |-> idx,
     seq |-> [entries |-> seq, entries_old |-> 0]]

\* No table yet.
FreshStore == Store(NoTable, "none", 0)

\* Rows an earlier version wrote: ids with a gap (its INSERT ... ON CONFLICT
\* DO NOTHING used up ids), distinct timestamps, no filename value in the
\* first.
OldRow(id, app, title, text, ts, emb, filename, withFilename) ==
    [c \in Range(IF withFilename THEN CanonCols ELSE ColsNoFilename) |->
        CASE c = "id" -> id
          [] c = "app" -> app
          [] c = "title" -> title
          [] c = "text" -> text
          [] c = "timestamp" -> ts
          [] c = "embedding" -> emb
          [] c = "filename" -> filename]

OldRows(withFilename) ==
    << OldRow(1, "Mail", "Inbox", "old one", 200, Encode(<<F1_0, Fm2_5>>), NULL,
              withFilename),
       OldRow(4, "Browser", "Docs", "old two", 100, Encode(<<Fm2_5>>), "old.png",
              withFilename) >>

OldTable(tsDecl, unique, withFilename, k) ==
    [exists |-> TRUE,
     sql    |-> TableSql("entries", tsDecl, withFilename),
     cols   |-> IF withFilename THEN CanonCols ELSE ColsNoFilename,
     unique |-> unique,
     rows   |-> SubSeq(OldRows(withFilename), 1, k)]

\* The legacy shape: timestamp INTEGER UNIQUE and the index, with or
\* without the filename column, holding k rows.
LegacyStore(withFilename, k) ==
    Store(OldTable(<<"timestamp", "INTEGER", "UNIQUE">>, TRUE, withFilename, k),
          "entries", MaxId(SubSeq(OldRows(withFilename), 1, k)))

\* The oldest shape: timestamp not unique, no filename column, no index.
OldestStore(k) ==
    Store(OldTable(<<"timestamp", "INTEGER">>, FALSE, FALSE, k),
          "none", MaxId(SubSeq(OldRows(FALSE), 1, k)))

InitialStores ==
    {FreshStore, LegacyStore(FALSE, 0), LegacyStore(FALSE, 2), LegacyStore(TRUE, 2),
     OldestStore(2)}

InsertArgs ==
    { [text |-> "hello", timestamp |-> 100, embedding |-> <<F0_1, F0_2, F0_3>>,
       app |-> "Notes", title |-> "Untitled", filename |-> "shot1.png"],
      [text |-> "world", timestamp |-> 300, embedding |-> <<F1_0>>,
       app |-> "Editor", title |-> "main.py", filename |-> NULL],
      [text |-> "", timestamp |-> 200, embedding |-> <<>>,
       app |-> "Shell", title |-> "", filename |-> ""] }

\* The store errors of a call with the statements stmts.
Faults(stmts) ==
    {NoFault} \cup UNION {{[at |-> s, cls |-> c] : c \in FaultClasses(s)} : s \in stmts}

CreateDbStmts ==
    {"connect", "SELECT sql", "CREATE TABLE IF NOT EXISTS", "CREATE INDEX",
     "SELECT filename", "ADD COLUMN", "commit"} \cup Range(MigrationStmts)

\* The fault happened in the call: it is none, or the call reached its statement.
Happened(fault, out) == fault = NoFault \/ fault.at \in Range(out.trace)

NoCall == Outcome("none", Conn(FreshStore, NoArgs, <<>>), NoFault, NoArgs, <<>>, <<>>, <<>>)

\* The call that left out entered the migration path (lines 33-35).
Entered(out) == out.op = "create_db" /\ "RENAME" \in Range(out.trace)

\* The call that left out got past the rename of line 35: it went on to the
\* CREATE TABLE of line 38.
Renamed(out) == out.op = "create_db" /\ "CREATE TABLE" \in Range(out.trace)

\* What the calls on this store did so far: entered, a call entered the
\* migration path, and reentered, a later call entered it too; renamed, a
\* call got past the rename, and rerenamed, a later call did too.
NoHistory ==
    [entered |-> FALSE, reentered |-> FALSE, renamed |-> FALSE, rerenamed |-> FALSE]

History(h, out) ==
    [entered   |-> h.entered \/ Entered(out),
     reentered |-> h.reentered \/ (h.entered /\ Entered(out)),
     renamed   |-> h.renamed \/ Renamed(out),
     rerenamed |-> h.rerenamed \/ (h.renamed /\ Renamed(out))]

Init ==
    /\ db \in InitialStores
    /\ pre = db
    /\ last = NoCall
    /\ hist = NoHistory

\* The call with result r, in which fault happened, returns; track, the
\* history of the migrations is kept.
Return(r, fault, track) ==
    /\ Happened(fault, r.out)
    /\ db' = r.db
    /\ pre' = db
    /\ last' = r.out
    /\ hist' = IF track THEN History(hist, r.out) ELSE hist

CreateDb ==
    \E fault \in Faults(CreateDbStmts) :
        Return(create_db(db, fault), fault, FALSE)

InsertEntry ==
    /\ Len(db.entries.rows) < MaxRows
    /\ \E args \in InsertArgs, fault \in Faults({"connect", "INSERT", "commit"}) :
        Return(insert_entry(db, args, fault), fault, FALSE)

\* The orders to tell apart in a call with the store error fault: the
\* order of the rows shows only in a call that returns them.
OrdersSeen(rows, fault) ==
    IF fault = NoFault THEN Orders(rows) ELSE {CHOOSE p \in Orders(rows) : TRUE}

GetAllEntries ==
    \E fault \in Faults({"connect", "SELECT entries", "fetchall"}) :
        \E order \in OrdersSeen(db.entries.rows, fault) :
            Return(get_all_entries(db, order, fault), fault, FALSE)

GetTimestamps ==
    \E fault \in Faults({"connect", "SELECT timestamp", "fetchall"}) :
        \E order \in OrdersSeen(db.entries.rows, fault) :
            Return(get_timestamps(db, order, fault), fault, FALSE)

Next == CreateDb \/ InsertEntry \/ GetAllEntries \/ GetTimestamps

Spec == Init /\ [][Next]_vars

(***************************************************************************)
(* The calls that change the store, with the history of the migrations    *)
(* kept in hist.                                                           *)
(***************************************************************************)
TrackedCreateDb ==
    \E fault \in Faults(CreateDbStmts) :
        Return(create_db(db, fault), fault, TRUE)

TrackedInsertEntry ==
    /\ Len(db.entries.rows) < MaxRows
    /\ \E args \in InsertArgs, fault \in Faults({"connect", "INSERT", "commit"}) :
        Return(insert_entry(db, args, fault), fault, TRUE)

MigrationNext == TrackedCreateDb \/ TrackedInsertEntry

MigrationSpec == Init /\ [][MigrationNext]_vars

(***************************************************************************)
(* The calls on a store whose table carries the uniqueness constraint in  *)
(* other words than "timestamp INTEGER UNIQUE": SQLite keeps the text of  *)
(* the CREATE TABLE statement as it was written, and line 29 looks for    *)
(* these three words in it.                                                *)
(***************************************************************************)
\* A table with the column "timestamp INTEGER NOT NULL UNIQUE", the filename
\* column and the index, holding k rows.
RewrittenStore(k) ==
    Store(OldTable(<<"timestamp", "INTEGER", "NOT", "NULL", "UNIQUE">>, TRUE, TRUE, k),
          "entries", MaxId(SubSeq(OldRows(TRUE), 1, k)))

DetectionInit ==
    /\ db \in {LegacyStore(TRUE, 2), RewrittenStore(2)}
    /\ pre = db
    /\ last = NoCall
    /\ hist = NoHistory

DetectionSpec == DetectionInit /\ [][Next]_vars

(***************************************************************************)
(* The vector codec on vectors of float32: an insert of such a vector     *)
(* into the empty table (line 178 encodes it) and the listing of the      *)
(* table (line 122 decodes it).                                            *)
(***************************************************************************)
\* Bound of the model: the vectors have at most this many components.
MaxVecLen == 2

\* Some float32 numbers: the zeros, 1.0, -2.5, the float32 nearest to 0.1,
\* the largest number, the smallest normal number, the smallest subnormal
\* number, the subnormal number 3 * 2^-131, the infinities and a NaN.
Float32Values ==
    {Special("zero", 0), Special("zero", 1), F1_0, Fm2_5,
     Fin(0, -4, 13421773, 0), Fin(1, 127, Pow2(24) - 1, 0),
     Fin(0, -126, Pow2(23), 0), Fin(0, -149, Pow2(23), 0),
     Fin(1, -130, 3 * Pow2(22), 0),
     Special("inf", 0), Special("inf", 1), Special("nan", 0)}

Float32Vectors == UNION {[1..n -> Float32Values] : n \in 0..MaxVecLen}

CodecArgs ==
    {[text |-> "vector", timestamp |-> 100, embedding |-> v, app |-> "Notes",
      title |-> "Untitled", filename |-> NULL] : v \in Float32Vectors}

CodecInit ==
    /\ db = create_db(FreshStore, NoFault).db
    /\ pre = db
    /\ last = NoCall
    /\ hist = NoHistory

EncodeVector ==
    /\ db.entries.rows = <<>>
    /\ \E args \in CodecArgs :
          Return(insert_entry(db, args, NoFault), NoFault, FALSE)

DecodeVector ==
    /\ db.entries.rows # <<>>
    /\ \E order \in Orders(db.entries.rows) :
          Return(get_all_entries(db, order, NoFault), NoFault, FALSE)

CodecNext == EncodeVector \/ DecodeVector

CodecSpec == CodecInit /\ [][CodecNext]_vars

(***************************************************************************)
(* The properties.  pre is the store before the last call, db the store    *)
(* after it, last what the call was and what its caller saw.               *)
(***************************************************************************)
\* The call ran to its end: no exception left its "with" block.
Completed == last.err = NULL

\* The store raised nothing of its own accord during the call.
NoStoreFault == last.fault = NoFault

\* The current shape: the seven columns, timestamp not unique, and an index
\* idx_timestamp.
SchemaCurrent(d) ==
    /\ d.entries.exists
    /\ d.entries.cols = CanonCols
    /\ ~d.entries.unique
    /\ d.idx # "none"

\* A create_db() that ran to its end with no store error leaves the current
\* shape, and no call takes the current shape away.
SchemaEstablished ==
    /\ (last.op = "create_db" /\ Completed /\ NoStoreFault) => SchemaCurrent(db)
    /\ SchemaCurrent(pre) => SchemaCurrent(db)

\* What get_all_entries() returns on store d when the store returns the
\* rows in order o and raises nothing.
Listed(d, o) == get_all_entries(d, o, NoFault).out.entries

\* What get_timestamps() returns on store d, likewise.
ListedTimestamps(d, o) == get_timestamps(d, o, NoFault).out.timestamps

\* Row r of table t holds in its columns cols what row q holds.
SameValues(r, q, cols) == \A c \in cols : r[c] = q[c]

\* C1: migration correctness.  A create_db() that runs to its end on a legacy
\* table (timestamp UNIQUE) holding K rows, with or without the filename
\* column, leaves a table 'entries' with exactly K rows, every original
\* value of every original column preserved row for row (filename NULL where
\* the old table had no such column), and no uniqueness of timestamp.
C1_MigrationCorrect ==
    (last.op = "create_db" /\ Completed /\ pre.entries.exists /\ pre.entries.unique)
    => /\ db.entries.exists
       /\ ~db.entries.unique
       /\ ~db.entries_old.exists
       /\ db.entries.cols = CanonCols
       /\ Len(db.entries.rows) = Len(pre.entries.rows)
       /\ \A i \in 1..Len(pre.entries.rows) :
            /\ SameValues(db.entries.rows[i], pre.entries.rows[i],
                          Range(pre.entries.cols))
            /\ "filename" \notin Range(pre.entries.cols)
                  => db.entries.rows[i]["filename"] = NULL

\* A migration of two rows from a legacy table that has the filename column,
\* one row with no filename value and one with a value, has run to its end.
C1_Witness ==
    /\ last.op = "create_db"
    /\ Completed
    /\ pre.entries.unique
    /\ "filename" \in Range(pre.entries.cols)
    /\ Len(pre.entries.rows) = 2
    /\ pre.entries.rows[1]["filename"] = NULL
    /\ pre.entries.rows[2]["filename"] # NULL
    /\ "RENAME" \in Range(last.trace)

\* C2: idempotent schema creation.  A create_db() with no store error on a
\* store that a create_db() completed before, or that already has the
\* current shape, leaves the store (shape, index and rows) as it was and
\* reports no error.
C2_CreateDbIdempotent ==
    /\ (last.op = "create_db" /\ Completed /\ NoStoreFault) => SchemaCurrent(db)
    /\ (last.op = "create_db" /\ NoStoreFault /\ SchemaCurrent(pre))
       => /\ db = pre
          /\ Completed
          /\ ~last.logged
          /\ ~last.raised

\* The second of two create_db() in succession on a fresh store has
\* returned.
C2_Witness ==
    /\ last.op = "create_db"
    /\ NoStoreFault
    /\ pre = create_db(FreshStore, NoFault).db
    /\ db = pre

\* C3 (as claimed): every entry of 'entries' before a call, whether or not a
\* store error interrupts the call, is in 'entries' after it with the same
\* values.
C3_EntriesPersist ==
    \A i \in 1..Len(pre.entries.rows) :
        \E j \in 1..Len(db.entries.rows) :
            SameValues(db.entries.rows[j], pre.entries.rows[i],
                       Range(pre.entries.cols))

\* C4: non-uniqueness.  Once a create_db() has completed (the store has the
\* current shape, and keeps it), an insert_entry with the timestamp of a
\* stored entry, the store raising nothing, returns an id and get_all_entries
\* returns the new entry and every entry stored before.
C4_DuplicateTimestampAccepted ==
    /\ SchemaEstablished
    /\ (/\ last.op = "insert_entry"
        /\ NoStoreFault
        /\ SchemaCurrent(pre)
        /\ \E i \in 1..Len(pre.entries.rows) :
              pre.entries.rows[i]["timestamp"] = last.args.timestamp)
       => /\ last.id # <<>>
          /\ \A o \in Orders(db.entries.rows) :
               /\ \E k \in 1..Len(Listed(db, o)) :
                     /\ Listed(db, o)[k].id = last.id[1]
                     /\ Listed(db, o)[k].timestamp = last.args.timestamp
               /\ \A i \in 1..Len(pre.entries.rows) :
                     \E k \in 1..Len(Listed(db, o)) :
                        /\ Listed(db, o)[k].id = pre.entries.rows[i]["id"]
                        /\ Listed(db, o)[k].id # last.id[1]
                        /\ Listed(db, o)[k].timestamp = pre.entries.rows[i]["timestamp"]

\* After the migration of a legacy store, an insert with the timestamp of a
\* migrated entry has returned.
C4_Witness ==
    /\ last.op = "insert_entry"
    /\ NoStoreFault
    /\ SchemaCurrent(pre)
    /\ last.id # <<>>
    /\ \E i \in 1..Len(pre.entries.rows) :
          /\ pre.entries.rows[i]["timestamp"] = last.args.timestamp
          /\ pre.entries.rows[i]["text"] = "old two"

\* C5: insert failure isolation.  An insert_entry during which a store error
\* occurs returns None, raises nothing, and leaves the store as it was.
C5_InsertFailureIsolated ==
    (last.op = "insert_entry" /\ ~Completed)
    => /\ last.id = <<>>
       /\ ~last.raised
       /\ db = pre

\* The store failed at the commit of an insert into a table that held rows.
C5_Witness ==
    /\ last.op = "insert_entry"
    /\ last.fault.at = "commit"
    /\ Len(pre.entries.rows) >= 1
    /\ last.id = <<>>

\* The timestamps of a list of entries.
Timestamps(es) == [i \in 1..Len(es) |-> es[i].timestamp]

NonIncreasing(ts) == \A i \in 1..(Len(ts) - 1) : ts[i] >= ts[i + 1]

\* C6 (as claimed): in any state get_timestamps() returns one timestamp for
\* every stored entry, the timestamps of the table in non-increasing order,
\* and the list is the list of the timestamps of what get_all_entries()
\* returns in that state.
C6_TimestampsMatchEntries ==
    \A o1, o2 \in Orders(db.entries.rows) :
        /\ Len(ListedTimestamps(db, o1)) = Len(db.entries.rows)
        /\ \E p \in Perms[Len(db.entries.rows)] :
              \A i \in 1..Len(db.entries.rows) :
                 ListedTimestamps(db, o1)[i] = db.entries.rows[p[i]]["timestamp"]
        /\ NonIncreasing(ListedTimestamps(db, o1))
        /\ ListedTimestamps(db, o1) = Timestamps(Listed(db, o2))

Abs(n) == IF n < 0 THEN -n ELSE n

\* y is x rounded to a float32: x itself when x is zero, infinite or has no
\* bits below the 24 a float32 keeps, and else a float32 no further from x
\* than half a unit of its last place (x in the normal range of float32).
Rounded32(y, x) ==
    IF x.k = "nan" THEN y.k = "nan"
    ELSE IF x.k # "fin" THEN y = x
    ELSE /\ y.k = "fin"
         /\ y.lo = 0
         /\ y.s = x.s
         /\ \/ /\ y.e = x.e
               /\ Abs(y.hi - x.hi) <= 1
               /\ Abs((y.hi - x.hi) * Pow2(29) - x.lo) <= Pow2(28)
            \/ /\ y.e = x.e + 1
               /\ y.hi = Pow2(23)
               /\ (Pow2(24) - x.hi) * Pow2(29) - x.lo <= Pow2(28)

VecRounded32(u, v) ==
    /\ Len(u) = Len(v)
    /\ \A i \in 1..Len(u) : Rounded32(u[i], v[i])

\* The list es holds every row of rows exactly once.
EachRowOnce(es, rows) ==
    /\ Len(es) = Len(rows)
    /\ \A i \in 1..Len(rows) :
          \E k \in 1..Len(es) :
             /\ es[k].id = rows[i]["id"]
             /\ \A m \in 1..Len(es) : es[m].id = rows[i]["id"] => m = k

\* The entry e carries the arguments args of the insert that returned id;
\* its embedding equals the one passed exactly, or is the one passed rounded
\* to float32.
Carries(e, id, args, exact) ==
    /\ e.id = id
    /\ e.app = args.app
    /\ e.title = args.title
    /\ e.text = args.text
    /\ e.timestamp = args.timestamp
    /\ e.filename = args.filename
    /\ IF exact THEN VecEq(e.embedding, args.embedding)
       ELSE VecRounded32(e.embedding, args.embedding)

\* After a successful insert_entry on a table of the current shape,
\* get_all_entries() returns every stored row once, newest first, the
\* entries it returned before the insert unchanged, and the new entry with
\* the arguments of the insert.
RoundTrip(exact) ==
    (last.op = "insert_entry" /\ last.id # <<>> /\ SchemaCurrent(pre))
    => \A o \in Orders(db.entries.rows) :
          /\ EachRowOnce(Listed(db, o), db.entries.rows)
          /\ NonIncreasing(Timestamps(Listed(db, o)))
          /\ \E k \in 1..Len(Listed(db, o)) :
                Carries(Listed(db, o)[k], last.id[1], last.args, exact)
          /\ \A q \in Orders(pre.entries.rows) :
                \A i \in 1..Len(Listed(pre, q)) :
                   \E k \in 1..Len(Listed(db, o)) :
                      Listed(db, o)[k] = Listed(pre, q)[i]

\* C7 (as claimed): the round trip, the decoded embedding equal to the
\* embedding passed to the insert.
C7_RoundTripExact == RoundTrip(TRUE)

\* C7 (amended): the round trip, the decoded embedding equal to the
\* embedding passed to the insert within 32-bit floating-point precision:
\* of the same length, each component the passed component rounded to
\* float32, which is the passed component itself when that is a float32.
C7_RoundTripFloat32 == RoundTrip(FALSE)

\* The scenario: the single insert of (hello, 100, [0.1, 0.2, 0.3], Notes,
\* Untitled, shot1.png) into an empty table has returned, and the one entry
\* listed has the filename and an embedding of three components that are
\* not the numbers passed.
C7_Witness ==
    /\ last.op = "insert_entry"
    /\ last.id # <<>>
    /\ SchemaCurrent(pre)
    /\ last.args.text = "hello"
    /\ Len(db.entries.rows) = 1
    /\ \A o \in Orders(db.entries.rows) :
          /\ Len(Listed(db, o)) = 1
          /\ Listed(db, o)[1].filename = "shot1.png"
          /\ Len(Listed(db, o)[1].embedding) = 3
          /\ ~VecEq(Listed(db, o)[1].embedding, last.args.embedding)

\* C8 (as claimed): get_all_entries() returns every stored entry whose
\* filename is NULL, and every entry of a table that has no filename column,
\* with filename None.
C8_MissingFilenameTolerated ==
    \A o \in Orders(db.entries.rows) :
        \A i \in 1..Len(db.entries.rows) :
            (\/ "filename" \notin Range(db.entries.cols)
             \/ db.entries.rows[i]["filename"] = NULL)
            => \E k \in 1..Len(Listed(db, o)) :
                  /\ Listed(db, o)[k].id = db.entries.rows[i]["id"]
                  /\ Listed(db, o)[k].filename = NULL

\* C9: no store error is propagated.  No call raises; a call in which a
\* store error occurred that no handler inside the function took prints the
\* error and returns its neutral result: nothing for create_db, None for
\* insert_entry, an empty list for get_all_entries and get_timestamps.
C9_NoStoreErrorPropagates ==
    /\ ~last.raised
    /\ ~Completed
       => /\ last.logged
          /\ last.id = <<>>
          /\ last.entries = <<>>
          /\ last.timestamps = <<>>
    /\ (last.fault # NoFault /\ last.op # "create_db") => ~Completed

\* The store failed with a DatabaseError while get_all_entries() read a
\* table of the current shape that held rows.
C9_Witness ==
    /\ last.op = "get_all_entries"
    /\ last.fault = [at |-> "SELECT entries", cls |-> "DatabaseError"]
    /\ SchemaCurrent(pre)
    /\ Len(pre.entries.rows) >= 1
    /\ last.entries = <<>>
    /\ ~last.raised

\* C10 (as claimed): a successful insert_entry returns an id greater than
\* every id the store assigned before (those of the rows of 'entries' and of
\* the rows the migration moved to 'entries_old'), that id is the id of
\* exactly one entry, and no two entries share an id.
C10_IdsIncrease ==
    (last.op = "insert_entry" /\ last.id # <<>>)
    => /\ \A i \in 1..Len(pre.entries.rows) : last.id[1] > pre.entries.rows[i]["id"]
       /\ \A i \in 1..Len(pre.entries_old.rows) :
             last.id[1] > pre.entries_old.rows[i]["id"]
       /\ \A o \in Orders(db.entries.rows) :
             \E k \in 1..Len(Listed(db, o)) :
                /\ Listed(db, o)[k].id = last.id[1]
                /\ \A m \in 1..Len(Listed(db, o)) :
                      Listed(db, o)[m].id = last.id[1] => m = k
       /\ \A i, j \in 1..Len(db.entries.rows) :
             i # j => db.entries.rows[i]["id"] # db.entries.rows[j]["id"]

\* C11 (as claimed): connection release.  When a call has returned, with or
\* without a store error, the connection it opened is closed.
C11_ConnectionReleased == last.op # "none" => ~last.open

\* C12: column set.  A create_db() that completes with no store error, from
\* whatever store it found, leaves an 'entries' table whose columns are
\* exactly id, app, title, text, timestamp, embedding and filename, and no
\* insert_entry, get_all_entries or get_timestamps changes the columns of
\* 'entries'.
C12_ColumnSet ==
    /\ (last.op = "create_db" /\ Completed /\ NoStoreFault)
       => /\ db.entries.exists
          /\ Range(db.entries.cols) = Range(CanonCols)
          /\ Len(db.entries.cols) = Cardinality(Range(CanonCols))
          /\ \A i \in 1..Len(db.entries.rows) :
                DOMAIN db.entries.rows[i] = Range(CanonCols)
    /\ last.op \in {"insert_entry", "get_all_entries", "get_timestamps"}
       => /\ db.entries.exists = pre.entries.exists
          /\ db.entries.cols = pre.entries.cols

\* A create_db() has completed on a table that had no UNIQUE constraint and
\* no filename column and held rows: the probe of filename failed and the
\* ALTER TABLE added the column.
C12_Witness ==
    /\ last.op = "create_db"
    /\ Completed
    /\ NoStoreFault
    /\ pre.entries.exists
    /\ ~pre.entries.unique
    /\ "filename" \notin Range(pre.entries.cols)
    /\ Len(pre.entries.rows) >= 1
    /\ "ADD COLUMN" \in Range(last.trace)
    /\ "filename" \in Range(db.entries.cols)

\* C13 (as claimed): in any sequence of calls the migration path is entered
\* in at most one create_db().
C13_MigrationEnteredOnce == ~hist.reentered

\* C13 (amended): a store is migrated at most once.  At most one create_db()
\* gets past the rename of the migration path; a create_db() enters the
\* path only on a table whose timestamp is UNIQUE and only while no earlier
\* call got past the rename (an earlier attempt that the store failed at
\* the rename itself changed nothing and is repeated); so once a migration
\* has completed, every later create_db() takes the non-migration path.
C13_MigratedOnce ==
    /\ ~hist.rerenamed
    /\ Entered(last) => (pre.entries.exists /\ pre.entries.unique)
    /\ (Entered(last) /\ ~Renamed(last)) => ~hist.renamed
    /\ (last.op = "create_db" /\ hist.renamed /\ ~Renamed(last))
       => /\ ~Entered(last)
          /\ Len(last.trace) > 2 => last.trace[3] = "CREATE TABLE IF NOT EXISTS"

\* A first create_db() was failed by the store at the rename, a second one
\* migrated the store to the end, and a third one has taken the
\* non-migration path and completed.
C13_Witness ==
    /\ last.op = "create_db"
    /\ Completed
    /\ hist.reentered
    /\ hist.renamed
    /\ ~Entered(last)
    /\ "CREATE TABLE IF NOT EXISTS" \in Range(last.trace)
    /\ ~db.entries_old.exists
    /\ Len(db.entries.rows) >= 2

\* C14: vector codec round trip.  For a vector v of float32 numbers of
\* length 0, 1 or more, the bytes stored for v are 4 times as many as v has
\* components, decoding the bytes of v gives v, component for component
\* the same float32 number (a NaN comes back a NaN), and the vector
\* get_all_entries() returns compares equal to v wherever v has no NaN.
C14_CodecRoundTrip ==
    /\ (last.op = "insert_entry" /\ last.id # <<>>)
       => /\ Len(Encode(last.args.embedding)) = 4 * Len(last.args.embedding)
          /\ Decode(Encode(last.args.embedding)) = last.args.embedding
          /\ \A i \in 1..Len(db.entries.rows) :
                db.entries.rows[i]["id"] = last.id[1]
                => /\ Len(db.entries.rows[i]["embedding"])
                         = 4 * Len(last.args.embedding)
                   /\ Decode(db.entries.rows[i]["embedding"]) = last.args.embedding
    /\ (last.op = "get_all_entries" /\ Completed)
       => \A k \in 1..Len(last.entries) :
             \E v \in Float32Vectors :
                /\ last.entries[k].embedding = v
                /\ Encode(v) = pre.entries.rows[k]["embedding"]
                /\ (\A i \in 1..Len(v) : v[i].k # "nan")
                      => VecEq(last.entries[k].embedding, v)

\* The vector of the smallest subnormal number and the largest number has
\* been inserted and listed, and the entry listed holds the two numbers.
C14_Witness ==
    /\ last.op = "get_all_entries"
    /\ Len(last.entries) = 1
    /\ Len(pre.entries.rows[1]["embedding"]) = 8
    /\ last.entries[1].embedding
          = <<Fin(0, -149, Pow2(23), 0), Fin(1, 127, Pow2(24) - 1, 0)>>

\* C15 (as claimed): legacy detection.  A create_db() that finds an
\* 'entries' table whose timestamp is unique, however the constraint is
\* written, and gets as far as the test of line 29, takes the migration
\* path, and after a create_db() that completed with no store error the
\* timestamp of 'entries' is not unique.
C15_LegacyDetected ==
    /\ (/\ last.op = "create_db"
        /\ pre.entries.exists
        /\ pre.entries.unique
        /\ Len(last.trace) > 2)
       => Entered(last)
    /\ (last.op = "create_db" /\ Completed /\ NoStoreFault)
       => ~(db.entries.exists /\ db.entries.unique)

\* C16 (as claimed): timestamp index.  After a create_db() that completed
\* with no store error, on the migration path or on the other, the index
\* idx_timestamp exists and is an index on the timestamp of 'entries'.
C16_TimestampIndexed ==
    (last.op = "create_db" /\ Completed /\ NoStoreFault)
    => /\ db.entries.exists
       /\ "timestamp" \in Range(db.entries.cols)
       /\ db.idx = "entries"

\* The shape of table t: whether it exists, its definition, its columns and
\* the uniqueness of timestamp.
Shape(t) == [exists |-> t.exists, sql |-> t.sql, cols |-> t.cols, unique |-> t.unique]

\* C17: frame of the store operations.  A successful insert_entry adds
\* exactly one row to 'entries', the row with the returned id, and leaves
\* every other row, the shape of the tables and the index as they were;
\* get_all_entries and get_timestamps leave the store as it was, whether
\* they fail or not.
C17_Frame ==
    /\ (last.op = "insert_entry" /\ last.id # <<>>)
       => /\ Len(db.entries.rows) = Len(pre.entries.rows) + 1
          /\ SubSeq(db.entries.rows, 1, Len(pre.entries.rows)) = pre.entries.rows
          /\ db.entries.rows[Len(db.entries.rows)]["id"] = last.id[1]
          /\ Shape(db.entries) = Shape(pre.entries)
          /\ db.entries_old = pre.entries_old
          /\ db.idx = pre.idx
    /\ last.op \in {"get_all_entries", "get_timestamps"} => db = pre

\* An insert into a table that held two rows has returned an id.
C17_Witness ==
    /\ last.op = "insert_entry"
    /\ last.id # <<>>
    /\ Len(pre.entries.rows) = 2
    /\ Len(db.entries.rows) = 3

====
